---- MODULE Spec2Model ----
(***************************************************************************)
(* MagSpoof (magspoof.c): track encoding and playback engine.              *)
(*                                                                         *)
(* The program is one sequential thread (setup, then loop forever) plus    *)
(* the pin-change interrupt and the button that drives it.  The state is   *)
(* the program's globals, the three output pins, the interrupt hardware    *)
(* bits the code touches, the position of the thread (pc) and the locals   *)
(* of the function it is in.  `out' and `clock' record the calls of        *)
(* playBit and the holds (delayMicroseconds) of the current playback.      *)
(***************************************************************************)
EXTENDS Integers, Sequences, FiniteSets, TLC

\* ---- bounds of the model ------------------------------------------------
MaxLen1 == 1        \* longest track 1 payload explored
MaxLen2 == 2        \* longest track 2 payload explored
MaxPlays == 2       \* number of triggers handled by loop

\* ---- program constants ---------------------------------------------------
LOW == 0
HIGH == 1
BETWEEN_ZERO_EVEN == 53 - 1
BETWEEN_ZERO == 53
LEAD_ZERO_SHORT == 25 - 1
LEAD_ZERO == 25
TRAIL_ZERO == 5 * 5
REV_SIZE == 41
UINT_MOD == 65536   \* unsigned int is 16 bits wide on the AVR target

sublen == (0 :> 32 @@ 1 :> 48 @@ 2 :> 48)
bitlen == (0 :> 7 @@ 1 :> 5 @@ 2 :> 5)

\* parity bit position used by storeRevTrack
PARITY_POS == 4

\* ---- payloads explored ---------------------------------------------------
\* character codes: '%' 'B' for track 1; '1' ';' and the out-of-range ' '
\* (code - offset is negative) for track 2
Chars1 == {37, 66}
Chars2 == {49, 59, 32}

SeqsUpTo(S, n) == UNION {[1..k -> S] : k \in 0..n}

VARIABLES
  tracks,      \* tracks[0], tracks[1]: the payloads (without the '\0')
  revTrack,    \* char revTrack[41], as bytes 0..255
  curTrack,    \* unsigned int curTrack
  dir,         \* int dir
  pinA, pinB, enablePin,      \* levels of PIN_A, PIN_B, ENABLE_PIN
  button,      \* level of BUTTON_PIN (driven from outside)
  pcmsk,       \* PCMSK bit PCINT2: pin change on the button raises the flag
  pcif,        \* pin change interrupt flag
  intEnabled,  \* global interrupt enable (sei / cli)
  pc,          \* position of the thread
  track, i, j, tmp, crc, lrc,   \* locals of playTrack
  ri, rj,      \* locals i, j of reverseTrack
  sendBit,     \* argument of the running playBit
  ret,         \* where the running playBit returns to
  out,         \* the playBit calls of the current playback
  clock,       \* the holds of CLOCK_US of the current playback
  plays        \* the number of playTrack calls made by loop

vars == <<tracks, revTrack, curTrack, dir, pinA, pinB, enablePin, button,
          pcmsk, pcif, intEnabled, pc, track, i, j, tmp, crc, lrc, ri, rj,
          sendBit, ret, out, clock, plays>>

\* ---- C operators ---------------------------------------------------------
\* 1 << n
Pow2(n) == 2 ^ n

\* x & 1 (two's complement)
Lsb(x) == x % 2

\* x >> 1 (arithmetic shift)
Shr1(x) == x \div 2

\* (x >> p) & 1
BitAt(x, p) == (x \div Pow2(p)) % 2

\* a ^ b on non-negative values
RECURSIVE BitXor(_, _)
BitXor(a, b) ==
  IF a = 0 THEN b
  ELSE IF b = 0 THEN a
  ELSE (((a % 2) + (b % 2)) % 2) + (2 * BitXor(a \div 2, b \div 2))

\* x |= 1 << p
SetBit(x, p) == IF BitAt(x, p) = 1 THEN x ELSE x + Pow2(p)

\* x &= ~(1 << p)
ClearBit(x, p) == IF BitAt(x, p) = 1 THEN x - Pow2(p) ELSE x

\* tracks[t][k] of the C string: the character, or '\0' at the end
CharAt(t, k) == IF k < Len(tracks[t]) THEN tracks[t][k + 1] ELSE 0

\* ---- storeRevTrack ---------------------------------------------------------
\* number of data bits of a character: the bound bitlen[track]-1 of the loops
NDataStore(tr) == bitlen[tr] - 1

\* crc ^= tmp & 1
StoreCrcStep(c, t) == BitXor(c, Lsb(t))

\* as if the bit were not shifted to its column
StoreLrcStepNoShift(l, t, jj) == BitXor(l, Lsb(t))

\* lrc ^= (tmp & 1) << j
StoreLrcStep(l, t, jj) == BitXor(l, Lsb(t) * Pow2(jj))

\* as if a 0 bit left the byte alone
StoreBitSetOnly(b, t, jj) == IF Lsb(t) # 0 THEN SetBit(b, jj) ELSE b

\* tmp & 1 ? (revTrack[i] |= 1 << j) : (revTrack[i] &= ~(1 << j))
StoreBit(b, t, jj) == IF Lsb(t) # 0 THEN SetBit(b, jj) ELSE ClearBit(b, jj)

\* as if the two branches were swapped
StoreParitySwapped(b, c) ==
  IF c # 0 THEN ClearBit(b, PARITY_POS) ELSE SetBit(b, PARITY_POS)

\* as if the parity bit were never set
StoreParityClearOnly(b, c) == ClearBit(b, PARITY_POS)

\* crc ? (revTrack[i] |= 1 << 4) : (revTrack[i] &= ~(1 << 4))
StoreParity(b, c) ==
  IF c # 0 THEN SetBit(b, PARITY_POS) ELSE ClearBit(b, PARITY_POS)

\* the inner for loop over j: the byte, crc, lrc and tmp after n rounds
RECURSIVE StoreInner(_, _, _)
StoreInner(s, jj, n) ==
  IF jj >= n THEN s
  ELSE StoreInner([b   |-> StoreBit(s.b, s.tmp, jj),
                   crc |-> StoreCrcStep(s.crc, s.tmp),
                   lrc |-> StoreLrcStep(s.lrc, s.tmp, jj),
                   tmp |-> Shr1(s.tmp)], jj + 1, n)

\* the for loop over the characters, from index k with running lrc l
RECURSIVE StoreChars(_, _, _, _)
StoreChars(rt, tr, k, l) ==
  IF CharAt(tr, k) = 0 THEN [rt |-> rt, i |-> k, lrc |-> l]
  ELSE LET s == StoreInner([b |-> rt[k], crc |-> 1, lrc |-> l,
                            tmp |-> CharAt(tr, k) - sublen[tr]],
                           0, NDataStore(tr))
       IN  StoreChars([rt EXCEPT ![k] = StoreParity(s.b, s.crc)],
                      tr, k + 1, s.lrc)

\* the checksum entry: tmp = lrc; crc = 1; the loop; the parity bit
StoreLrc(b, tr, l) ==
  LET s == StoreInner([b |-> b, crc |-> 1, lrc |-> 0, tmp |-> l],
                      0, NDataStore(tr))
  IN  StoreParity(s.b, s.crc)

\* the sentinel written at the end
StoreSentinel == 0

\* as if the sentinel went one entry further
SentinelIndexFar(k) == k + 2

\* revTrack[i + 1] = '\0', i being the index of the checksum entry
SentinelIndex(k) == k + 1

\* void storeRevTrack(int track): the buffer it leaves, from buffer rt
storeRevTrack(t, rt) ==
  LET tr == t - 1
      c  == StoreChars(rt, tr, 0, 0)
      r1 == [c.rt EXCEPT ![c.i] = StoreLrc(c.rt[c.i], tr, c.lrc)]
  IN  [r1 EXCEPT ![SentinelIndex(c.i)] = StoreSentinel]

\* the indices of revTrack storeRevTrack(t) writes, from buffer rt: the
\* payload entries, the checksum entry and the sentinel
StoreWrites(t, rt) ==
  LET c == StoreChars(rt, t - 1, 0, 0)
  IN  (0..c.i) \cup {SentinelIndex(c.i)}

\* ---- initial state ---------------------------------------------------------
Init ==
  /\ \E p1 \in SeqsUpTo(Chars1, MaxLen1), p2 \in SeqsUpTo(Chars2, MaxLen2) :
       tracks = (0 :> p1 @@ 1 :> p2)
  /\ revTrack = [k \in 0..(REV_SIZE - 1) |-> 0]
  /\ curTrack = 0
  /\ dir = 0
  /\ pinA = LOW /\ pinB = LOW /\ enablePin = LOW
  /\ button = HIGH
  /\ pcmsk = FALSE /\ pcif = FALSE /\ intEnabled = TRUE
  /\ pc = "blink"
  /\ track = 0 /\ i = 0 /\ j = 0 /\ tmp = 0 /\ crc = 0 /\ lrc = 0
  /\ ri = 0 /\ rj = 0
  /\ sendBit = 0 /\ ret = "none"
  /\ out = << >>
  /\ clock = 0
  /\ plays = 0

\* the thread runs only when no enabled interrupt is pending
Run == ~(intEnabled /\ pcif)

\* ---- the button and the interrupt -----------------------------------------
ButtonChange ==
  /\ button' = 1 - button
  /\ pcif' = (pcif \/ pcmsk)
  /\ UNCHANGED <<tracks, revTrack, curTrack, dir, pinA, pinB, enablePin,
                 pcmsk, intEnabled, pc, track, i, j, tmp, crc, lrc, ri, rj,
                 sendBit, ret, out, clock, plays>>

\* ISR(PCINT0_vect): the body is empty; it wakes the sleeping thread
ISR ==
  /\ intEnabled /\ pcif
  /\ pcif' = FALSE
  /\ pc' = IF pc = "sleeping" THEN "woken" ELSE pc
  /\ UNCHANGED <<tracks, revTrack, curTrack, dir, pinA, pinB, enablePin,
                 button, pcmsk, intEnabled, track, i, j, tmp, crc, lrc,
                 ri, rj, sendBit, ret, out, clock, plays>>

\* ---- setup -------------------------------------------------------------------
BLINK_TIMES == 3

BlinkOn ==
  /\ Run /\ pc = "blink" /\ i < BLINK_TIMES
  /\ enablePin' = HIGH
  /\ pc' = "blink_off"
  /\ UNCHANGED <<tracks, revTrack, curTrack, dir, pinA, pinB, button, pcmsk,
                 pcif, intEnabled, track, i, j, tmp, crc, lrc, ri, rj,
                 sendBit, ret, out, clock, plays>>

BlinkOff ==
  /\ Run /\ pc = "blink_off"
  /\ enablePin' = LOW
  /\ i' = i + 1
  /\ pc' = "blink"
  /\ UNCHANGED <<tracks, revTrack, curTrack, dir, pinA, pinB, button, pcmsk,
                 pcif, intEnabled, track, j, tmp, crc, lrc, ri, rj,
                 sendBit, ret, out, clock, plays>>

\* storeRevTrack(2), the last statement of setup
SetupStore ==
  /\ Run /\ pc = "blink" /\ i >= BLINK_TIMES
  /\ revTrack' = storeRevTrack(2, revTrack)
  /\ dir' = 0
  /\ i' = 0
  /\ pc' = "loop"
  /\ UNCHANGED <<tracks, curTrack, pinA, pinB, enablePin, button, pcmsk,
                 pcif, intEnabled, track, j, tmp, crc, lrc, ri, rj,
                 sendBit, ret, out, clock, plays>>

\* ---- playBit ------------------------------------------------------------------
\* dir ^= 1
DirFlip(d) == BitXor(d, 1)

\* the level digitalWrite(PIN_A, dir) drives
LevelA(d) == IF d # 0 THEN HIGH ELSE LOW

\* the level digitalWrite(PIN_B, !dir) drives
LevelB(d) == IF d # 0 THEN LOW ELSE HIGH

\* as if the first delayMicroseconds(CLOCK_US) were missing
PlayBitFirstNoHold(b, site, idx, pos, r) ==
  /\ dir' = DirFlip(dir)
  /\ pinA' = LevelA(dir')
  /\ pinB' = LevelB(dir')
  /\ clock' = clock
  /\ sendBit' = b
  /\ ret' = r
  /\ pc' = "playBit"
  /\ out' = Append(out, [bit |-> b, site |-> site, idx |-> idx, pos |-> pos])

\* the call playBit(b) made at source line `site' for bit `pos' of entry
\* `idx', up to and including the first delayMicroseconds(CLOCK_US)
PlayBitFirst(b, site, idx, pos, r) ==
  /\ dir' = DirFlip(dir)
  /\ pinA' = LevelA(dir')
  /\ pinB' = LevelB(dir')
  /\ clock' = clock + 1
  /\ sendBit' = b
  /\ ret' = r
  /\ pc' = "playBit"
  /\ out' = Append(out, [bit |-> b, site |-> site, idx |-> idx, pos |-> pos])

\* as if the second delayMicroseconds(CLOCK_US) were inside the if
PlayBitSecondHoldInIf ==
  /\ Run /\ pc = "playBit"
  /\ IF sendBit # 0
       THEN /\ dir' = DirFlip(dir)
            /\ pinA' = LevelA(dir')
            /\ pinB' = LevelB(dir')
            /\ clock' = clock + 1
       ELSE UNCHANGED <<dir, pinA, pinB, clock>>
  /\ pc' = ret
  /\ sendBit' = 0
  /\ ret' = "none"
  /\ UNCHANGED <<tracks, revTrack, curTrack, enablePin, button, pcmsk, pcif,
                 intEnabled, track, i, j, tmp, crc, lrc, ri, rj, out, plays>>

\* the rest of playBit: the transition of a 1 bit, the second hold, return
PlayBitSecond ==
  /\ Run /\ pc = "playBit"
  /\ IF sendBit # 0
       THEN /\ dir' = DirFlip(dir)
            /\ pinA' = LevelA(dir')
            /\ pinB' = LevelB(dir')
       ELSE UNCHANGED <<dir, pinA, pinB>>
  /\ clock' = clock + 1
  /\ pc' = ret
  /\ sendBit' = 0
  /\ ret' = "none"
  /\ UNCHANGED <<tracks, revTrack, curTrack, enablePin, button, pcmsk, pcif,
                 intEnabled, track, i, j, tmp, crc, lrc, ri, rj, out, plays>>

\* ---- loop ----------------------------------------------------------------------
\* the number of triggers already handled in the state the wrap-around runs
\* start from: curTrack is then 2^16 - 1
WRAP_START == 65535

\* the bound on the triggers handled, counted from either start
PlaysLeft ==
  \/ plays < MaxPlays
  \/ plays >= WRAP_START /\ plays < WRAP_START + MaxPlays

\* sleep(), up to sleep_cpu(): pin change interrupt on, sei, sleep
SleepEnter ==
  /\ Run /\ pc = "loop" /\ PlaysLeft
  /\ pcmsk' = TRUE
  /\ intEnabled' = TRUE
  /\ pc' = "sleeping"
  /\ UNCHANGED <<tracks, revTrack, curTrack, dir, pinA, pinB, enablePin,
                 button, pcif, track, i, j, tmp, crc, lrc, ri, rj, sendBit,
                 ret, out, clock, plays>>

\* sleep(), after the wake-up: cli, pin change interrupt off, sei
SleepExit ==
  /\ Run /\ pc = "woken"
  /\ pcmsk' = FALSE
  /\ intEnabled' = TRUE
  /\ pc' = "awake"
  /\ UNCHANGED <<tracks, revTrack, curTrack, dir, pinA, pinB, enablePin,
                 button, pcif, track, i, j, tmp, crc, lrc, ri, rj, sendBit,
                 ret, out, clock, plays>>

\* as if the noInterrupts() call were missing
NoInterruptsMissing ==
  /\ Run /\ pc = "awake"
  /\ pc' = "wait1"
  /\ UNCHANGED <<tracks, revTrack, curTrack, dir, pinA, pinB, enablePin,
                 button, pcmsk, pcif, intEnabled, track, i, j, tmp, crc, lrc,
                 ri, rj, sendBit, ret, out, clock, plays>>

\* noInterrupts()
NoInterrupts ==
  /\ Run /\ pc = "awake"
  /\ intEnabled' = FALSE
  /\ pc' = "wait1"
  /\ UNCHANGED <<tracks, revTrack, curTrack, dir, pinA, pinB, enablePin,
                 button, pcmsk, pcif, track, i, j, tmp, crc, lrc, ri, rj,
                 sendBit, ret, out, clock, plays>>

\* while (digitalRead(BUTTON_PIN) == LOW); delay(50);
WaitButton1 ==
  /\ Run /\ pc = "wait1" /\ button # LOW
  /\ pc' = "wait2"
  /\ UNCHANGED <<tracks, revTrack, curTrack, dir, pinA, pinB, enablePin,
                 button, pcmsk, pcif, intEnabled, track, i, j, tmp, crc, lrc,
                 ri, rj, sendBit, ret, out, clock, plays>>

\* as if written 1 + (++curTrack % 2)
TrackArgPreIncrement(c) == 1 + ((c + 1) % 2)

\* the track loop plays: 1 + (curTrack++ % 2)
TrackArg(c) == 1 + (c % 2)

\* as if the driver were never enabled
DRIVER_NOT_ENABLED == LOW

\* the level playTrack writes to ENABLE_PIN before the first bit
DRIVER_ON == HIGH

\* as if playTrack rebuilt the buffer from the track it plays
PlayTrackEnterRebuild ==
  /\ Run /\ pc = "wait2" /\ button # LOW
  /\ curTrack' = (curTrack + 1) % UINT_MOD
  /\ plays' = plays + 1
  /\ track' = TrackArg(curTrack) - 1
  /\ revTrack' = storeRevTrack(TrackArg(curTrack), revTrack)
  /\ lrc' = 0
  /\ dir' = 0
  /\ enablePin' = DRIVER_ON
  /\ i' = 0
  /\ out' = << >>
  /\ clock' = 0
  /\ pc' = "lead"
  /\ UNCHANGED <<tracks, pinA, pinB, button, pcmsk, pcif,
                 intEnabled, j, tmp, crc, ri, rj, sendBit, ret>>

\* while (digitalRead(BUTTON_PIN) == LOW); playTrack(1 + (curTrack++ % 2)):
\* the call, up to the write of ENABLE_PIN
PlayTrackEnter ==
  /\ Run /\ pc = "wait2" /\ button # LOW
  /\ curTrack' = (curTrack + 1) % UINT_MOD
  /\ plays' = plays + 1
  /\ track' = TrackArg(curTrack) - 1
  /\ lrc' = 0
  /\ dir' = 0
  /\ enablePin' = DRIVER_ON
  /\ i' = 0
  /\ out' = << >>
  /\ clock' = 0
  /\ pc' = "lead"
  /\ UNCHANGED <<tracks, revTrack, pinA, pinB, button, pcmsk, pcif,
                 intEnabled, j, tmp, crc, ri, rj, sendBit, ret>>

\* delay(400); interrupts();
LoopEnd ==
  /\ Run /\ pc = "played"
  /\ intEnabled' = TRUE
  /\ pc' = "loop"
  /\ UNCHANGED <<tracks, revTrack, curTrack, dir, pinA, pinB, enablePin,
                 button, pcmsk, pcif, track, i, j, tmp, crc, lrc, ri, rj,
                 sendBit, ret, out, clock, plays>>

\* ---- playTrack ----------------------------------------------------------------
\* as if the loops ran over all bitlen[track] bits
NDataAll(tr) == bitlen[tr]

\* number of data bits of a character: the bound bitlen[track]-1 of the loops
NData(tr) == bitlen[tr] - 1

\* the value crc starts from for every character
CRC_INIT == 1

\* as if written crc |= tmp & 1
CrcStepOr(c, t) == IF Lsb(t) = 1 THEN 1 ELSE c

\* crc ^= tmp & 1
CrcStep(c, t) == BitXor(c, Lsb(t))

\* as if written lrc ^= tmp & 1
LrcStepNoShift(l, t, jj) == BitXor(l, Lsb(t))

\* lrc ^= (tmp & 1) << j
LrcStep(l, t, jj) == BitXor(l, Lsb(t) * Pow2(jj))

\* as if the test were made on the second track
PlaysReverseTrack2(tr) == tr = 1

\* if (track == 0): the reverse of track 2 follows
PlaysReverse(tr) == tr = 0

\* the track reverseTrack is called with
REV_TRACK == 2

\* for (int i = 0; i < 25; i++) playBit(0);
PlayLead ==
  /\ Run /\ pc = "lead"
  /\ IF i < LEAD_ZERO
       THEN /\ PlayBitFirst(0, 120, i, 0, "lead")
            /\ i' = i + 1
       ELSE /\ i' = 0
            /\ pc' = "char"
            /\ UNCHANGED <<dir, pinA, pinB, clock, sendBit, ret, out>>
  /\ UNCHANGED <<tracks, revTrack, curTrack, enablePin, button, pcmsk, pcif,
                 intEnabled, track, j, tmp, crc, lrc, ri, rj, plays>>

\* the head of the loop over the characters; after the last one, the set-up
\* of the checksum character: tmp = lrc; crc = 1
CharHead ==
  /\ Run /\ pc = "char"
  /\ IF CharAt(track, i) # 0
       THEN /\ tmp' = CharAt(track, i) - sublen[track]
            /\ pc' = "data"
       ELSE /\ tmp' = lrc
            /\ pc' = "lrc"
  /\ crc' = CRC_INIT
  /\ j' = 0
  /\ UNCHANGED <<tracks, revTrack, curTrack, dir, pinA, pinB, enablePin,
                 button, pcmsk, pcif, intEnabled, track, i, lrc, ri, rj,
                 sendBit, ret, out, clock, plays>>

\* one round of the loop over the data bits of a character, or after the
\* last round playBit(crc)
DataBit ==
  /\ Run /\ pc = "data"
  /\ IF j < NData(track)
       THEN /\ crc' = CrcStep(crc, tmp)
            /\ lrc' = LrcStep(lrc, tmp, j)
            /\ PlayBitFirst(Lsb(tmp), 129, i, j, "data")
            /\ tmp' = Shr1(tmp)
            /\ j' = j + 1
            /\ i' = i
       ELSE /\ PlayBitFirst(crc, 132, i, j, "char")
            /\ i' = i + 1
            /\ UNCHANGED <<crc, lrc, tmp, j>>
  /\ UNCHANGED <<tracks, revTrack, curTrack, enablePin, button, pcmsk, pcif,
                 intEnabled, track, ri, rj, plays>>

\* one round of the loop over the data bits of the checksum character, or
\* after the last round playBit(crc)
LrcBit ==
  /\ Run /\ pc = "lrc"
  /\ IF j < NData(track)
       THEN /\ crc' = CrcStep(crc, tmp)
            /\ PlayBitFirst(Lsb(tmp), 140, i, j, "lrc")
            /\ tmp' = Shr1(tmp)
            /\ j' = j + 1
       ELSE /\ PlayBitFirst(crc, 143, i, j, "after_lrc")
            /\ UNCHANGED <<crc, tmp, j>>
  /\ UNCHANGED <<tracks, revTrack, curTrack, enablePin, button, pcmsk, pcif,
                 intEnabled, track, i, lrc, ri, rj, plays>>

\* if (track == 0)
AfterLrc ==
  /\ Run /\ pc = "after_lrc"
  /\ pc' = IF PlaysReverse(track) THEN "gap" ELSE "trail"
  /\ i' = 0
  /\ UNCHANGED <<tracks, revTrack, curTrack, dir, pinA, pinB, enablePin,
                 button, pcmsk, pcif, intEnabled, track, j, tmp, crc, lrc,
                 ri, rj, sendBit, ret, out, clock, plays>>

\* ---- reverseTrack --------------------------------------------------------------
\* i after: while (revTrack[i++] != '\0');
RECURSIVE SentinelSearch(_, _)
SentinelSearch(rt, k) ==
  IF rt[k] = 0 THEN k + 1 ELSE SentinelSearch(rt, k + 1)

\* the indices while (revTrack[i++] != '\0') reads
SearchReads(rt) == 0..(SentinelSearch(rt, 0) - 1)

\* as if the i-- after the search were missing
RevStartNoDec(rt) == SentinelSearch(rt, 0)

\* i after: i--;
RevStart(rt) == SentinelSearch(rt, 0) - 1

\* the value dir is reset to
REV_DIR == 0

\* for (i < BETWEEN_ZERO) playBit(0); then the call reverseTrack(2) up to
\* its loop
Gap ==
  /\ Run /\ pc = "gap"
  /\ IF i < BETWEEN_ZERO
       THEN /\ PlayBitFirst(0, 151, i, 0, "gap")
            /\ i' = i + 1
            /\ ri' = ri
       ELSE /\ dir' = REV_DIR
            /\ ri' = RevStart(revTrack)
            /\ pc' = "rev_char"
            /\ UNCHANGED <<i, pinA, pinB, clock, sendBit, ret, out>>
  /\ UNCHANGED <<tracks, revTrack, curTrack, enablePin, button, pcmsk, pcif,
                 intEnabled, track, j, tmp, crc, lrc, rj, plays>>

\* while (i--): the next entry, or the return to playTrack
RevChar ==
  /\ Run /\ pc = "rev_char"
  /\ IF ri # 0
       THEN /\ ri' = ri - 1
            /\ rj' = bitlen[REV_TRACK - 1] - 1
            /\ pc' = "rev_bit"
            /\ i' = i
       ELSE /\ ri' = 0
            /\ rj' = 0
            /\ i' = 0
            /\ pc' = "trail"
  /\ UNCHANGED <<tracks, revTrack, curTrack, dir, pinA, pinB, enablePin,
                 button, pcmsk, pcif, intEnabled, track, j, tmp, crc, lrc,
                 sendBit, ret, out, clock, plays>>

\* for (j = bitlen[track]-1; j >= 0; j--) playBit((revTrack[i] >> j) & 1);
RevBit ==
  /\ Run /\ pc = "rev_bit"
  /\ IF rj >= 0
       THEN /\ PlayBitFirst(BitAt(revTrack[ri], rj), 104, ri, rj, "rev_bit")
            /\ rj' = rj - 1
       ELSE /\ rj' = 0
            /\ pc' = "rev_char"
            /\ UNCHANGED <<dir, pinA, pinB, clock, sendBit, ret, out>>
  /\ UNCHANGED <<tracks, revTrack, curTrack, enablePin, button, pcmsk, pcif,
                 intEnabled, track, i, j, tmp, crc, lrc, ri, plays>>

\* ---- the end of playTrack ------------------------------------------------------
\* the level playTrack leaves on ENABLE_PIN
DRIVER_OFF == LOW

\* for (i < 5 * 5) playBit(0); then the three writes of LOW and the return
Trail ==
  /\ Run /\ pc = "trail"
  /\ IF i < TRAIL_ZERO
       THEN /\ PlayBitFirst(0, 159, i, 0, "trail")
            /\ i' = i + 1
            /\ UNCHANGED enablePin
       ELSE /\ pinA' = LOW
            /\ pinB' = LOW
            /\ enablePin' = DRIVER_OFF
            /\ pc' = "played"
            /\ UNCHANGED <<i, dir, clock, sendBit, ret, out>>
  /\ UNCHANGED <<tracks, revTrack, curTrack, button, pcmsk, pcif,
                 intEnabled, track, j, tmp, crc, lrc, ri, rj, plays>>

\* ---- the program -----------------------------------------------------------------
Next ==
  \/ ButtonChange
  \/ ISR
  \/ BlinkOn
  \/ BlinkOff
  \/ SetupStore
  \/ SleepEnter
  \/ SleepExit
  \/ NoInterrupts
  \/ WaitButton1
  \/ PlayTrackEnter
  \/ PlayLead
  \/ CharHead
  \/ DataBit
  \/ LrcBit
  \/ AfterLrc
  \/ Gap
  \/ RevChar
  \/ RevBit
  \/ Trail
  \/ PlayBitSecond
  \/ LoopEnd

Spec == Init /\ [][Next]_vars

\* ---- what the encoding is meant to be -------------------------------------------
\* the low bits_per_character-1 bits of character_code - alphabet_offset
DataOf(c, t) == (c - sublen[t]) % Pow2(bitlen[t] - 1)

RECURSIVE Popcount(_)
Popcount(x) == IF x = 0 THEN 0 ELSE (x % 2) + Popcount(x \div 2)

\* the bit that makes the number of 1 bits odd
OddParityBit(d) == IF Popcount(d) % 2 = 0 THEN 1 ELSE 0

\* bit p of the column-wise XOR of the data bits of payload t: 1 when an odd
\* number of its characters have bit p set
ColumnBit(t, p) ==
  Cardinality({k \in 1..Len(tracks[t]) : BitAt(DataOf(tracks[t][k], t), p) = 1}) % 2

RECURSIVE ColumnSum(_, _)
ColumnSum(t, p) ==
  IF p < 0 THEN 0 ELSE (ColumnBit(t, p) * Pow2(p)) + ColumnSum(t, p - 1)

\* the checksum of payload t
ColumnXor(t) == ColumnSum(t, bitlen[t] - 2)

\* the bits of one character: data bits from bit 0 upward, then parity
CharBits(d, t) ==
  [p \in 1..bitlen[t] |-> IF p < bitlen[t] THEN BitAt(d, p - 1)
                                           ELSE OddParityBit(d)]

RECURSIVE PayloadBits(_, _)
PayloadBits(t, k) ==
  IF k > Len(tracks[t]) THEN << >>
  ELSE CharBits(DataOf(tracks[t][k], t), t) \o PayloadBits(t, k + 1)

\* payload and checksum of track t, as the forward pass sends them
ForwardBits(t) == PayloadBits(t, 1) \o CharBits(ColumnXor(t), t)

Rep(x, n) == [p \in 1..n |-> x]

IsPrefix(a, b) ==
  /\ Len(a) <= Len(b)
  /\ a = SubSeq(b, 1, Len(a))

Bits(o) == [k \in DOMAIN o |-> o[k].bit]
Sites(o) == [k \in DOMAIN o |-> o[k].site]

\* positions of the thread inside playTrack, and after a playTrack call
PlaybackPcs ==
  {"lead", "char", "data", "lrc", "after_lrc", "gap", "rev_char", "rev_bit",
   "trail", "playBit"}
ReturnedPcs ==
  {"played", "loop", "sleeping", "woken", "awake", "wait1", "wait2"}
Returned == plays > 0 /\ pc \in ReturnedPcs

\* ---- C1 ---------------------------------------------------------------------------
\* C1: every character playTrack encodes is sent as the low
\* bits_per_character-1 bits of (code - offset), bit 0 first, followed by a
\* parity bit that makes the number of 1 bits of the character odd; '1' on
\* track 2 is sent as data 0001 and parity 0.
C1_EncodedCharacter ==
  \A k \in DOMAIN out :
    LET e  == out[k]
        c  == CharAt(track, e.idx)
        d  == DataOf(c, track)
        nd == bitlen[track] - 1
    IN  /\ e.site = 129 => /\ e.pos \in 0..(nd - 1)
                           /\ e.bit = BitAt(d, e.pos)
        /\ e.site = 132 =>
             /\ c # 0
             /\ k > nd
             /\ \A p \in 0..(nd - 1) :
                  /\ out[k - nd + p].site = 129
                  /\ out[k - nd + p].idx = e.idx
                  /\ out[k - nd + p].pos = p
             /\ (Popcount(d) + e.bit) % 2 = 1
             /\ (track = 1 /\ c = 49) => (d = 1 /\ e.bit = 0)

C1_Witness ==
  /\ track = 1
  /\ \E k \in DOMAIN out : out[k].site = 132 /\ CharAt(track, out[k].idx) = 49

\* ---- C2 ---------------------------------------------------------------------------
\* C2: the checksum character playTrack sends right after the last payload
\* character carries the column-wise XOR of the payload's data bits (0 for the
\* empty payload) and a parity bit that makes its own number of 1 bits odd.
C2_Checksum ==
  \A k \in DOMAIN out :
    LET e  == out[k]
        n  == Len(tracks[track])
        x  == ColumnXor(track)
        nd == bitlen[track] - 1
    IN  /\ e.site = 140 =>
             /\ e.idx = n
             /\ e.pos \in 0..(nd - 1)
             /\ e.bit = BitAt(x, e.pos)
             /\ e.pos = 0 => /\ k > 1
                             /\ out[k - 1].site = (IF n = 0 THEN 120 ELSE 132)
                             /\ n > 0 => out[k - 1].idx = n - 1
        /\ e.site = 143 =>
             /\ k > nd
             /\ \A p \in 0..(nd - 1) :
                  out[k - nd + p].site = 140 /\ out[k - nd + p].pos = p
             /\ (Popcount(x) + e.bit) % 2 = 1
             /\ n = 0 => x = 0
             /\ n = 1 => x = DataOf(tracks[track][1], track)

C2_Witness ==
  /\ Len(tracks[track]) = 2
  /\ ColumnXor(track) # 0
  /\ \E k \in DOMAIN out : out[k].site = 143

\* ---- C3 ---------------------------------------------------------------------------
\* C3: playTrack(2) sends 25 zero bits, the payload characters in order (data
\* bits from bit 0, then parity), the checksum character, 25 zero bits, and
\* nothing else; the lines go LOW and the driver off only after the last bit.
ExpectedTrack2 == Rep(0, 25) \o ForwardBits(1) \o Rep(0, 25)

C3_Track2Stream ==
  (plays > 0 /\ track = 1) =>
    /\ IsPrefix(Bits(out), ExpectedTrack2)
    /\ pc \in PlaybackPcs =>
         /\ enablePin = HIGH
         /\ out # << >> => pinA # pinB
    /\ pc \notin PlaybackPcs =>
         /\ Bits(out) = ExpectedTrack2
         /\ pinA = LOW /\ pinB = LOW /\ enablePin = LOW

C3_Witness ==
  /\ plays > 0 /\ track = 1 /\ pc = "played"
  /\ Len(tracks[1]) = 2

\* ---- C4 ---------------------------------------------------------------------------
\* C4: playTrack(1) follows its checksum character with exactly 53 zero bits,
\* then the whole reverse pass of track 2, then the 25 trailing zeros;
\* playTrack(2) has no gap and no reverse pass; the reverse pass runs nowhere
\* else.
RECURSIVE CharSites(_, _)
CharSites(t, k) ==
  IF k > Len(tracks[t]) THEN << >>
  ELSE Rep(129, bitlen[t] - 1) \o <<132>> \o CharSites(t, k + 1)

ExpectedSites(t) ==
  Rep(120, 25) \o CharSites(t, 1) \o Rep(140, bitlen[t] - 1) \o <<143>>
  \o (IF t = 0 THEN Rep(151, 53) \o Rep(104, 5 * (Len(tracks[1]) + 1))
               ELSE << >>)
  \o Rep(159, 25)

InReverse ==
  \/ pc \in {"rev_char", "rev_bit"}
  \/ pc = "playBit" /\ ret = "rev_bit"

C4_ReverseFraming ==
  /\ plays > 0 =>
       /\ IsPrefix(Sites(out), ExpectedSites(track))
       /\ pc \notin PlaybackPcs => Sites(out) = ExpectedSites(track)
       /\ \A k \in DOMAIN out : out[k].site = 151 => out[k].bit = 0
  /\ InReverse =>
       /\ plays > 0 /\ track = 0
       /\ Len(out) >= 25 + bitlen[0] * (Len(tracks[0]) + 1) + 53
       /\ \A k \in DOMAIN out : out[k].site # 159

C4_Witness ==
  /\ plays > 0 /\ track = 0 /\ pc = "played"
  /\ Len(tracks[1]) >= 1
  /\ \E k \in DOMAIN out : out[k].site = 104

\* ---- C5 ---------------------------------------------------------------------------
\* C5: every playBit call opens with a real transition of PIN_A (the level it
\* writes differs from the level the line held), PIN_B is written to the
\* opposite level, a 1 bit adds exactly one more transition inside the call and
\* a 0 bit none; this holds across the reset of dir in reverseTrack.
PlayBitOpens == Len(out') = Len(out) + 1
PlayBitCloses == pc = "playBit" /\ pc' # "playBit"

C5_TransitionPerBit ==
  [][ /\ PlayBitOpens => (pinA' # pinA /\ pinB' # pinA')
      /\ (PlayBitCloses /\ sendBit = 1) => (pinA' # pinA /\ pinB' # pinA')
      /\ (PlayBitCloses /\ sendBit = 0) => (pinA' = pinA /\ pinB' = pinB)
    ]_vars

\* the first bit of the reverse pass is on the lines
C5_Witness ==
  /\ pc = "playBit" /\ ret = "rev_bit"
  /\ out[Len(out)].site = 104
  /\ out[Len(out) - 1].site = 151

\* ---- C6 ---------------------------------------------------------------------------
\* C6: while playBit runs the driver is enabled; once playTrack has returned,
\* PIN_A, PIN_B and ENABLE_PIN are all LOW.
C6_DriverEnabled ==
  /\ pc = "playBit" => enablePin = HIGH
  /\ Returned => (pinA = LOW /\ pinB = LOW /\ enablePin = LOW)

C6_Witness ==
  /\ Returned
  /\ pc = "sleeping"
  /\ Len(out) > 0

\* ---- C7 ---------------------------------------------------------------------------
\* C7: the reverse pass of track 2 (n payload characters) sends exactly the
\* n+1 buffer entries n, n-1, ..., 0, never the sentinel; each entry is sent
\* whole before the next one, bit 4 first, then bits 3, 2, 1, 0.
IsRev(e) == e.site = 104
RevOut == SelectSeq(out, IsRev)

ReverseDone ==
  /\ plays > 0 /\ track = 0
  /\ \/ pc \in {"trail", "played"} \cup ReturnedPcs
     \/ pc = "playBit" /\ ret = "trail"

C7_ReverseOrder ==
  LET n == Len(tracks[1])
      r == RevOut
  IN  /\ \A k \in 1..Len(r) :
           /\ r[k].idx = n - ((k - 1) \div 5)
           /\ r[k].pos = 4 - ((k - 1) % 5)
           /\ r[k].bit = BitAt(revTrack[r[k].idx], r[k].pos)
      /\ ReverseDone => Len(r) = 5 * (n + 1)

C7_Witness ==
  /\ ReverseDone /\ pc = "played"
  /\ Len(tracks[1]) = 2
  /\ Len(RevOut) = 15

\* ---- C8 ---------------------------------------------------------------------------
\* C8: after storeRevTrack(2), entry i < n of revTrack holds the data bits of
\* payload character i in bits 0..3 and its odd-parity bit in bit 4, entry n
\* holds the column-wise XOR checksum and its parity bit the same way, and
\* entry n+1 is the sentinel 0.
SetupDone == pc \notin {"blink", "blink_off"}

EntryHolds(b, d) ==
  /\ \A p \in 0..3 : BitAt(b, p) = BitAt(d, p)
  /\ BitAt(b, 4) = OddParityBit(d)

C8_ReverseBuffer ==
  SetupDone =>
    LET n == Len(tracks[1])
    IN  /\ \A k \in 0..(n - 1) :
             EntryHolds(revTrack[k], DataOf(tracks[1][k + 1], 1))
        /\ EntryHolds(revTrack[n], ColumnXor(1))
        /\ revTrack[n + 1] = 0

C8_Witness ==
  /\ SetupDone /\ pc = "loop"
  /\ Len(tracks[1]) = 2
  /\ ColumnXor(1) # 0

\* ---- C9 ---------------------------------------------------------------------------
\* C9: between the leading 25 zeros and the next padding run, playTrack makes
\* exactly n*k + k playBit calls (n payload characters, k bits per character).
IsForward(e) == e.site \in {129, 132, 140, 143}
IsPadding(e) == e.site \in {151, 159}

C9_BitCount ==
  LET n == Len(tracks[track])
      k == bitlen[track]
  IN  /\ Len(SelectSeq(out, IsForward)) <= (n * k) + k
      /\ (\E m \in DOMAIN out : IsPadding(out[m])) =>
            Len(SelectSeq(out, IsForward)) = (n * k) + k

C9_Witness ==
  /\ plays > 0 /\ track = 0
  /\ Len(tracks[0]) = 1
  /\ \E m \in DOMAIN out : out[m].site = 151

\* ---- C10 --------------------------------------------------------------------------
\* C10: revTrack is written only by the storeRevTrack(2) call of setup, which
\* is over before the first playTrack call; no later step changes a byte of it.
BuiltBuffer ==
  LET n == Len(tracks[1])
  IN  [k \in 0..(REV_SIZE - 1) |->
         IF k < n THEN DataOf(tracks[1][k + 1], 1)
                       + (16 * OddParityBit(DataOf(tracks[1][k + 1], 1)))
         ELSE IF k = n THEN ColumnXor(1) + (16 * OddParityBit(ColumnXor(1)))
         ELSE 0]

C10_BufferReadOnly ==
  [][ /\ revTrack' # revTrack => (pc = "blink" /\ plays = 0)
      /\ SetupDone => revTrack' = revTrack
      /\ plays' > plays => (SetupDone /\ revTrack = BuiltBuffer)
      /\ PlayBitOpens => revTrack' = BuiltBuffer
    ]_vars

\* the second playback has read the buffer
C10_Witness ==
  /\ plays = 2 /\ pc = "played"
  /\ revTrack = BuiltBuffer
  /\ Len(tracks[1]) = 2

\* ---- the whole record of a playTrack(1) call ------------------------------------
Rec(b, site, idx, pos) == [bit |-> b, site |-> site, idx |-> idx, pos |-> pos]

PadRecs(site, n) == [p \in 1..n |-> Rec(0, site, p - 1, 0)]

CharRecs(d, t, idx, dsite, psite) ==
  [p \in 1..bitlen[t] |->
     Rec(CharBits(d, t)[p], IF p < bitlen[t] THEN dsite ELSE psite, idx, p - 1)]

RECURSIVE PayloadRecs(_, _)
PayloadRecs(t, k) ==
  IF k > Len(tracks[t]) THEN << >>
  ELSE CharRecs(DataOf(tracks[t][k], t), t, k - 1, 129, 132)
       \o PayloadRecs(t, k + 1)

ForwardRecs(t) ==
  PayloadRecs(t, 1) \o CharRecs(ColumnXor(t), t, Len(tracks[t]), 140, 143)

ReverseRecs ==
  LET n == Len(tracks[1])
  IN  [p \in 1..(5 * (n + 1)) |->
         Rec(BitAt(BuiltBuffer[n - ((p - 1) \div 5)], 4 - ((p - 1) % 5)),
             104, n - ((p - 1) \div 5), 4 - ((p - 1) % 5))]

Track1Recs ==
  PadRecs(120, 25) \o ForwardRecs(0) \o PadRecs(151, 53) \o ReverseRecs
  \o PadRecs(159, 25)

\* the state loop is in when a playTrack(1) call has been handled, apart from
\* curTrack, plays and the button
AfterTrack1 ==
  /\ revTrack = BuiltBuffer
  /\ dir = 1
  /\ pinA = LOW /\ pinB = LOW /\ enablePin = LOW
  /\ pcmsk = FALSE /\ pcif = FALSE /\ intEnabled = TRUE
  /\ pc = "loop"
  /\ track = 0 /\ i = 25 /\ j = 6 /\ tmp = 0
  /\ crc = OddParityBit(ColumnXor(0)) /\ lrc = ColumnXor(0)
  /\ ri = 0 /\ rj = 0
  /\ sendBit = 0 /\ ret = "none"
  /\ out = Track1Recs
  /\ clock = 2 * Len(Track1Recs)

\* every state of loop after a first playTrack(1) has that shape
AfterTrack1Shape == (pc = "loop" /\ plays % 2 = 1) => AfterTrack1

\* ---- C11 --------------------------------------------------------------------------
\* the state of loop when 2^16 - 1 triggers have been handled: the last one
\* played track 1, and curTrack is 65535
InitWrap ==
  /\ \E p1 \in SeqsUpTo(Chars1, MaxLen1), p2 \in SeqsUpTo(Chars2, MaxLen2) :
       tracks = (0 :> p1 @@ 1 :> p2)
  /\ AfterTrack1
  /\ button \in {LOW, HIGH}
  /\ curTrack = WRAP_START % UINT_MOD
  /\ plays = WRAP_START

\* the program from its start, and from the state before the wrap-around
SpecWrap == (Init \/ InitWrap) /\ [][Next]_vars

\* C11: curTrack starts at 0 and goes up by one (modulo 2^16) on each trigger
\* loop handles; the m-th trigger plays track 1 when m is odd and track 2 when
\* m is even, also across the wrap-around of curTrack.
C11_Alternation ==
  /\ [](curTrack = plays % 65536)
  /\ [][ plays' # plays =>
           /\ plays' = plays + 1
           /\ curTrack' = (curTrack + 1) % 65536
           /\ track' + 1 = (IF plays' % 2 = 1 THEN 1 ELSE 2)
           /\ plays > 0 => track' # track
       ]_vars

\* the trigger after the wrap-around is being played
C11_Witness ==
  /\ plays = 65537 /\ curTrack = 1
  /\ track = 0
  /\ pc = "played"

\* ---- C12 --------------------------------------------------------------------------
\* the steps of the thread inside playTrack
ThreadPlay ==
  \/ PlayLead \/ CharHead \/ DataBit \/ LrcBit \/ AfterLrc
  \/ Gap \/ RevChar \/ RevBit \/ Trail \/ PlayBitSecond

\* the processor keeps executing playTrack: with interrupts off nothing else
\* runs, so an enabled step of it is taken; the button is under no obligation
SpecFair == Init /\ [][Next]_vars /\ WF_vars(ThreadPlay)

\* C12: interrupts are disabled in every state of a playback and enabled again
\* only after playTrack has returned; the handler does not run during a
\* playback, a button change during a playback starts no second playback, and
\* a playback once begun reaches the final driver-disable step.
C12_NoInterruptInPlayback ==
  /\ [](pc \in PlaybackPcs => ~intEnabled)
  /\ [][ /\ (pcif /\ ~pcif') => pc \notin PlaybackPcs
         /\ (~intEnabled /\ intEnabled') => pc = "played"
         /\ pc \in PlaybackPcs =>
              /\ plays' = plays
              /\ pc' \in PlaybackPcs \cup {"played"}
              /\ pc' = "played" =>
                   (pinA' = LOW /\ pinB' = LOW /\ enablePin' = LOW)
       ]_vars
  /\ [](pc \in PlaybackPcs => <>(pc = "played"))

\* the button went down during a playback, which went on
C12_Witness ==
  /\ pc = "playBit" /\ ret = "data"
  /\ button = LOW
  /\ ~intEnabled

\* ---- C13 --------------------------------------------------------------------------
IsOne(e) == e.bit = 1
IsZero(e) == e.bit = 0
Ones(o) == Len(SelectSeq(o, IsOne))
Zeros(o) == Len(SelectSeq(o, IsZero))

\* C13 as stated: a playBit(0) call takes one hold of CLOCK_US and a
\* playBit(1) call takes two, so between calls the holds of the playback add
\* up to one per 0 bit and two per 1 bit.
C13_OneHoldForZero ==
  pc # "playBit" => clock = Zeros(out) + (2 * Ones(out))

\* C13, amended: a playBit(0) call and a playBit(1) call take two holds each.
C13_TwoHoldsEach ==
  pc # "playBit" => clock = (2 * Zeros(out)) + (2 * Ones(out))

\* calls for a 0 bit and for a 1 bit have returned
C13_Witness ==
  /\ pc = "lrc"
  /\ Zeros(out) > 25
  /\ Ones(out) > 0

\* ---- C14 --------------------------------------------------------------------------
\* a buffer whose bytes all hold x
Filled(x) == [k \in 0..(REV_SIZE - 1) |-> x]

\* previous contents of bits 0..4 tried: none, all, and the two alternations
FillValues == {0, 31, 21, 10}

\* C14: storeRevTrack(2) run again on the buffer the first run left gives the
\* same buffer byte for byte; entries 0..n+1 do not depend on what bits 0..4
\* of the buffer held before, nor on where a sentinel was.
C14_BuildIdempotent ==
  pc = "loop" =>
    /\ storeRevTrack(2, revTrack) = revTrack
    /\ \A x \in FillValues :
         \A k \in 0..(Len(tracks[1]) + 1) :
           storeRevTrack(2, Filled(x))[k] = revTrack[k]

C14_Witness ==
  /\ pc = "loop" /\ plays = 0
  /\ Len(tracks[1]) = 2
  /\ revTrack[0] # revTrack[1]

\* ---- storeRevTrack(t) followed by reverseTrack(t), for either track ----------------
\* The program only ever calls storeRevTrack(2) and reverseTrack(2); both take
\* the track as a parameter.  Here the two functions are called in turn with
\* the same track t, 1 or 2, from the state the program starts in.
InitRev ==
  /\ \E p1 \in SeqsUpTo(Chars1, MaxLen1), p2 \in SeqsUpTo(Chars2, MaxLen2) :
       tracks = (0 :> p1 @@ 1 :> p2)
  /\ revTrack = [k \in 0..(REV_SIZE - 1) |-> 0]
  /\ curTrack = 0
  /\ dir = 0
  /\ pinA = LOW /\ pinB = LOW /\ enablePin = LOW
  /\ button = HIGH
  /\ pcmsk = FALSE /\ pcif = FALSE /\ intEnabled = TRUE
  /\ pc = "h_start"
  /\ track = 0 /\ i = 0 /\ j = 0 /\ tmp = 0 /\ crc = 0 /\ lrc = 0
  /\ ri = 0 /\ rj = 0
  /\ sendBit = 0 /\ ret = "none"
  /\ out = << >>
  /\ clock = 0
  /\ plays = 0

\* storeRevTrack(t); `track' keeps t - 1
HBuild ==
  /\ pc = "h_start"
  /\ \E t \in {1, 2} :
       /\ revTrack' = storeRevTrack(t, revTrack)
       /\ track' = t - 1
  /\ dir' = 0
  /\ pc' = "h_built"
  /\ UNCHANGED <<tracks, curTrack, pinA, pinB, enablePin, button, pcmsk,
                 pcif, intEnabled, i, j, tmp, crc, lrc, ri, rj, sendBit, ret,
                 out, clock, plays>>

\* reverseTrack(track + 1), up to its loop
HRevEnter ==
  /\ pc = "h_built"
  /\ dir' = REV_DIR
  /\ ri' = RevStart(revTrack)
  /\ pc' = "h_rev_char"
  /\ UNCHANGED <<tracks, revTrack, curTrack, pinA, pinB, enablePin, button,
                 pcmsk, pcif, intEnabled, track, i, j, tmp, crc, lrc, rj,
                 sendBit, ret, out, clock, plays>>

\* while (i--): the next entry, or the return
HRevChar ==
  /\ pc = "h_rev_char"
  /\ IF ri # 0
       THEN /\ ri' = ri - 1
            /\ rj' = bitlen[track] - 1
            /\ pc' = "h_rev_bit"
       ELSE /\ ri' = 0
            /\ rj' = 0
            /\ pc' = "h_done"
  /\ UNCHANGED <<tracks, revTrack, curTrack, dir, pinA, pinB, enablePin,
                 button, pcmsk, pcif, intEnabled, track, i, j, tmp, crc, lrc,
                 sendBit, ret, out, clock, plays>>

\* for (j = bitlen[track]-1; j >= 0; j--) playBit((revTrack[i] >> j) & 1);
HRevBit ==
  /\ pc = "h_rev_bit"
  /\ IF rj >= 0
       THEN /\ PlayBitFirst(BitAt(revTrack[ri], rj), 104, ri, rj, "h_rev_bit")
            /\ rj' = rj - 1
       ELSE /\ rj' = 0
            /\ pc' = "h_rev_char"
            /\ UNCHANGED <<dir, pinA, pinB, clock, sendBit, ret, out>>
  /\ UNCHANGED <<tracks, revTrack, curTrack, enablePin, button, pcmsk, pcif,
                 intEnabled, track, i, j, tmp, crc, lrc, ri, plays>>

NextRev ==
  \/ HBuild
  \/ HRevEnter
  \/ HRevChar
  \/ HRevBit
  \/ PlayBitSecond

SpecRev == InitRev /\ [][NextRev]_vars

\* ---- C15 --------------------------------------------------------------------------
\* C15: for both formats, after storeRevTrack(t) the first bit reverseTrack(t)
\* sends for each payload character is the parity bit the encoder computes
\* for that character.
C15_ParityFirst ==
  \A k \in DOMAIN out :
    (out[k].pos = bitlen[track] - 1 /\ out[k].idx < Len(tracks[track])) =>
       out[k].bit = OddParityBit(DataOf(tracks[track][out[k].idx + 1], track))

\* the same for the 5-bit format alone
C15_ParityFirstTrack2 == track = 1 => C15_ParityFirst

\* ---- C16 --------------------------------------------------------------------------
Reverse(q) == [k \in 1..Len(q) |-> q[(Len(q) + 1) - k]]

\* C16: the bits reverseTrack(2) sends inside playTrack(1) are, bit for bit,
\* the reversal of the payload and checksum bits playTrack(2) sends between
\* its leading and trailing zeros: characters last to first, each character's
\* bits last to first, nothing added or dropped.
C16_ExactReversal ==
  /\ ReverseDone => Bits(RevOut) = Reverse(ForwardBits(1))
  /\ (plays > 0 /\ track = 1 /\ pc \in ReturnedPcs) =>
        Bits(SelectSeq(out, IsForward)) = ForwardBits(1)

\* a reverse pass over two different characters is over
C16_Witness ==
  /\ ReverseDone /\ pc = "loop"
  /\ Len(tracks[1]) = 2
  /\ tracks[1][1] # tracks[1][2]
  /\ Bits(RevOut) # ForwardBits(1)

\* ---- C17 --------------------------------------------------------------------------
\* C17: every playBit call holds twice, for a 0 as for a 1: inside a call one
\* hold has passed since the transition that opened the cell, outside a call
\* the clock is twice the number of bits sent; the transition of a 1 bit comes
\* exactly one hold after the opening one, and for a 0 bit the lines stay as
\* they are from the opening transition to the end of the cell.
C17_TwoHoldsPerCall ==
  /\ [](pc = "playBit" => clock = (2 * Len(out)) - 1)
  /\ [](pc # "playBit" => clock = 2 * Len(out))
  /\ [][ /\ PlayBitOpens => /\ pc' = "playBit"
                            /\ clock' = clock + 1
                            /\ pinA' # pinA
         /\ PlayBitCloses => /\ Len(out') = Len(out)
                             /\ clock = (2 * (Len(out) - 1)) + 1
                             /\ clock' = clock + 1
                             /\ sendBit = 1 => (pinA' # pinA /\ pinB' # pinB)
                             /\ sendBit = 0 => (pinA' = pinA /\ pinB' = pinB)
         /\ (pc = "playBit" /\ ~PlayBitCloses) =>
               (pinA' = pinA /\ pinB' = pinB /\ clock' = clock)
       ]_vars

\* the reverse pass has sent a 0 and a 1, and the call for the last bit of an
\* entry has returned
C17_Witness ==
  /\ pc = "rev_bit" /\ rj < 0
  /\ \E m \in DOMAIN out : out[m].site = 104 /\ out[m].bit = 1
  /\ \E m \in DOMAIN out : out[m].site = 104 /\ out[m].bit = 0

\* ---- C18 --------------------------------------------------------------------------
\* the values a char of the payload can hold
CharCodes == (-128..127) \ {0}

\* the byte storeRevTrack leaves for data d in a byte that held 0
EntryFor(d) == StoreLrc(0, 1, d)

\* C18: whatever the characters of track 2 are, the entries storeRevTrack
\* writes at 0..n are not 0, so the sentinel search of reverseTrack ends with
\* i = n + 1; this holds for every value a character can have.
C18_NoZeroEntry ==
  /\ SetupDone =>
       LET n == Len(tracks[1])
       IN  /\ \A k \in 0..n : revTrack[k] # 0
           /\ RevStart(revTrack) = n + 1
  /\ (pc = "loop" /\ plays = 0) => \A c \in CharCodes : EntryFor(c - sublen[1]) # 0

\* a character with data bits 0000, out of the format's range, is stored
C18_Witness ==
  /\ SetupDone /\ pc = "woken"
  /\ Len(tracks[1]) = 2
  /\ tracks[1][1] = 32
  /\ revTrack[0] = 16

\* ---- the program with the tracks of the source ---------------------------------------
\* "%B123456781234567^LASTNAME/FIRST^YYMMSSSDDDDDDDDDDDDDDDDDDDDDDDDD?"
CatalogTrack1 ==
  <<37, 66, 49, 50, 51, 52, 53, 54, 55, 56, 49, 50, 51, 52, 53, 54, 55, 94,
    76, 65, 83, 84, 78, 65, 77, 69, 47, 70, 73, 82, 83, 84, 94, 89, 89, 77,
    77, 83, 83, 83, 68, 68, 68, 68, 68, 68, 68, 68, 68, 68, 68, 68, 68, 68,
    68, 68, 68, 68, 68, 68, 68, 68, 68, 68, 68, 63>>

\* ";123456781234567=YYMMSSSDDDDDDDDDDDDDD?"
CatalogTrack2 ==
  <<59, 49, 50, 51, 52, 53, 54, 55, 56, 49, 50, 51, 52, 53, 54, 55, 61, 89,
    89, 77, 77, 83, 83, 83, 68, 68, 68, 68, 68, 68, 68, 68, 68, 68, 68, 68,
    68, 68, 63>>

InitCatalog ==
  /\ tracks = (0 :> CatalogTrack1 @@ 1 :> CatalogTrack2)
  /\ revTrack = [k \in 0..(REV_SIZE - 1) |-> 0]
  /\ curTrack = 0
  /\ dir = 0
  /\ pinA = LOW /\ pinB = LOW /\ enablePin = LOW
  /\ button = HIGH
  /\ pcmsk = FALSE /\ pcif = FALSE /\ intEnabled = TRUE
  /\ pc = "blink"
  /\ track = 0 /\ i = 0 /\ j = 0 /\ tmp = 0 /\ crc = 0 /\ lrc = 0
  /\ ri = 0 /\ rj = 0
  /\ sendBit = 0 /\ ret = "none"
  /\ out = << >>
  /\ clock = 0
  /\ plays = 0

SpecCatalog == InitCatalog /\ [][Next]_vars

\* ---- C19 --------------------------------------------------------------------------
\* C19: with the 39 characters of the source's track 2, storeRevTrack writes
\* revTrack at 0..40 only (payload entries 0..38, checksum 39, sentinel 40),
\* the sentinel search reads 0..40 and stops there, and the reverse pass reads
\* entries 39 down to 0: no index is outside the 41 bytes.
C19_IndicesInBuffer ==
  /\ Len(tracks[1]) = 39
  /\ pc = "blink" =>
       /\ StoreChars(revTrack, 1, 0, 0).i = 39
       /\ SentinelIndex(39) = 40
       /\ StoreWrites(2, revTrack) = 0..40
  /\ SetupDone =>
       /\ revTrack[40] = 0
       /\ SearchReads(revTrack) = 0..40
  /\ (pc = "rev_bit" \/ (pc = "playBit" /\ ret = "rev_bit")) => ri \in 0..39
  /\ DOMAIN revTrack = 0..40

\* the reverse pass has read every entry down to entry 0
C19_Witness ==
  /\ Len(tracks[1]) = 39
  /\ pc = "rev_bit" /\ ri = 0 /\ rj < 0
  /\ Len(RevOut) = 200

\* ---- C20 --------------------------------------------------------------------------
\* C20: every character of both tracks of the source is within its format's
\* range, 0 <= code - offset <= 2^(bitlen - 1) - 1, so the low bitlen - 1 bits
\* playTrack and storeRevTrack take are the whole of code - offset.
C20_CatalogInRange ==
  /\ \A t \in {0, 1} : \A k \in 1..Len(tracks[t]) :
       /\ tracks[t][k] - sublen[t] >= 0
       /\ tracks[t][k] - sublen[t] <= Pow2(bitlen[t] - 1) - 1
       /\ DataOf(tracks[t][k], t) = tracks[t][k] - sublen[t]
  /\ SetupDone => \A k \in 1..Len(tracks[1]) :
       revTrack[k - 1] % Pow2(PARITY_POS) = tracks[1][k] - sublen[1]

\* the same for track 1 alone
C20_Track1InRange ==
  \A k \in 1..Len(tracks[0]) :
    /\ tracks[0][k] - sublen[0] >= 0
    /\ tracks[0][k] - sublen[0] <= Pow2(bitlen[0] - 1) - 1

====
